---- MODULE Spec2Model ----
(***************************************************************************)
(* RewindQueue (src/network/rewind_queue.cpp): the ordered list of         *)
(* RewindInfo (states and events), the current pointer into it, and the    *)
(* lock-protected list of network events that the main thread merges in.   *)
(* Two actors: the simulation (main) thread, which owns m_all_rewind_info  *)
(* and m_current, and the network thread, which only appends to            *)
(* m_network_events under its lock.                                        *)
(***************************************************************************)
EXTENDS Integers, Sequences, FiniteSets, TLC

\* ------------------------------------------------------------------ bounds
MaxTick == 1
MaxLive == 2

\* ------------------------------------------------------- program constants
RewindTicksInit == -9999
UndoFailed == -1

VARIABLES
    m_all_rewind_info,  \* the list of all RewindInfo, a sequence of records
    m_current,          \* iterator into it: 1..Len, Len+1 is end()
    m_network_events,   \* the data of the Synchronised list of network events
    m_lock,             \* holder of the m_network_events lock
    isServer,           \* NetworkConfig::get()->isServer()
    sim_pc,             \* position of the simulation thread
    net_pc,             \* position of the network thread
    net_ri,             \* the RewindInfo the network thread has constructed
    world_ticks,        \* mergeNetworkData: parameter
    needs_rewind,       \* mergeNetworkData: out parameter
    rewind_ticks,       \* mergeNetworkData: out parameter
    mi,                 \* mergeNetworkData: the iterator i over the data
    ret,                \* undoUntil: returned value
    undone,             \* ids on which undo() was invoked by the last call
    rewound,            \* ids on which rewind() was invoked by the last call
    last,               \* the last call of the simulation thread
    atLock,             \* the queue when the last merge took the lock
    drained,            \* entries the last merge removed, as they arrived
    replayed            \* the replay that follows the last undoUntil

vars == << m_all_rewind_info, m_current, m_network_events, m_lock, isServer,
           sim_pc, net_pc, net_ri, world_ticks, needs_rewind, rewind_ticks,
           mi, ret, undone, rewound, last, atLock, drained, replayed >>

\* --------------------------------------------------------------- records
Ticks == 0..MaxTick
\* 'now' may lie behind, at or after every tick that is recorded
WorldTicks == 0..(MaxTick + 1)
Kinds == {"S", "E"}
NoRec == [id |-> 0, tick |-> 0, kind |-> "S", conf |-> FALSE]
NoCall == [op |-> "none", arg |-> 0, cur0 |-> 0, ins |-> 0]
NoSnap == [taken |-> FALSE, inbox |-> <<>>, log |-> <<>>, cur |-> 0]
NoReplay == [from |-> 0, next |-> 0, acc |-> <<>>]

RewindInfo(id, t, k, c) == [id |-> id, tick |-> t, kind |-> k, conf |-> c]
isState(r) == r.kind = "S"
isEvent(r) == r.kind = "E"

Ids(s) == {s[j].id : j \in 1..Len(s)}
end == Len(m_all_rewind_info) + 1

LiveIds == Ids(m_all_rewind_info) \cup Ids(m_network_events)
             \cup (IF net_ri.id = 0 THEN {} ELSE {net_ri.id})
\* a fresh object: the smallest identity not in use
NewId == CHOOSE n \in 1..(MaxLive + 1) :
             n \notin LiveIds /\ \A k \in 1..(n - 1) : k \in LiveIds
CanAllocate == Cardinality(LiveIds) < MaxLive

\* ------------------------------------------------------ insertRewindInfo
\* a scan that compares ticks only
StopScanTicksOnly(prev, ri) == prev.tick < ri.tick

\* the two break conditions of the backward scan
StopScan(prev, ri) ==
    \/ prev.tick < ri.tick
    \/ prev.tick = ri.tick /\ isState(prev) /\ isEvent(ri)

RECURSIVE ScanBack(_, _, _)
ScanBack(l, ri, i) ==
    IF i = 1 THEN 1
    ELSE IF StopScan(l[i - 1], ri) THEN i
    ELSE ScanBack(l, ri, i - 1)

InsertPos(l, ri) == ScanBack(l, ri, Len(l) + 1)

InsertAt(l, i, ri) == SubSeq(l, 1, i - 1) \o <<ri>> \o SubSeq(l, i, Len(l))

\* an insert that never moves m_current off end()
CurrentNotRepaired(c, n, i) == IF i <= c THEN c + 1 ELSE c

\* an insert after which m_current keeps its index, not its element
CurrentIndexKept(c, n, i) == IF c = n + 1 THEN i ELSE c

\* m_current after list::insert(i, ri): set to the new element when it was
\* end(), otherwise it stays on the element it designated
CurrentAfterInsert(c, n, i) ==
    IF c = n + 1 THEN i
    ELSE IF i <= c THEN c + 1 ELSE c

insertRewindInfo(ri) ==
    LET i == InsertPos(m_all_rewind_info, ri) IN
    /\ m_all_rewind_info' = InsertAt(m_all_rewind_info, i, ri)
    /\ m_current' = CurrentAfterInsert(m_current, Len(m_all_rewind_info), i)

\* ------------------------------------------------------------- initial
Init ==
    /\ m_all_rewind_info = <<>>
    /\ m_current = 1
    /\ m_network_events = <<>>
    /\ m_lock = "free"
    /\ isServer \in BOOLEAN
    /\ sim_pc = "idle"
    /\ net_pc = "idle"
    /\ net_ri = NoRec
    /\ world_ticks = 0
    /\ needs_rewind = FALSE
    /\ rewind_ticks = 0
    /\ mi = 1
    /\ ret = 0
    /\ undone = <<>>
    /\ rewound = <<>>
    /\ last = NoCall
    /\ atLock = NoSnap
    /\ drained = <<>>
    /\ replayed = NoReplay

netVars == << m_network_events, m_lock, net_pc, net_ri >>
listVars == << m_all_rewind_info, m_current >>
mergeOut == << world_ticks, needs_rewind, rewind_ticks, mi >>
walkOut == << ret, undone, rewound, replayed >>

mergeRec == << atLock, drained >>

\* the parameters, results and locals of a call live until the simulation
\* thread makes its next call
ForgetMerge ==
    /\ world_ticks' = 0 /\ needs_rewind' = FALSE /\ rewind_ticks' = 0
    /\ mi' = 1 /\ atLock' = NoSnap /\ drained' = <<>>
ForgetWalk ==
    ret' = 0 /\ undone' = <<>> /\ rewound' = <<>> /\ replayed' = NoReplay

\* ------------------------------------------- addLocalEvent / addLocalState
addLocal(k, c, t) ==
    /\ sim_pc = "idle"
    /\ CanAllocate
    /\ LET ri == RewindInfo(NewId, t, k, c) IN
       /\ insertRewindInfo(ri)
       /\ last' = [op |-> "addLocal", arg |-> t, cur0 |-> m_current,
                   ins |-> ri.id]
    /\ ForgetMerge /\ ForgetWalk
    /\ UNCHANGED << netVars, isServer, sim_pc >>

addLocalEvent == \E c \in BOOLEAN, t \in Ticks : addLocal("E", c, t)
addLocalState == \E c \in BOOLEAN, t \in Ticks : addLocal("S", c, t)

\* --------------------------------------- addNetworkEvent / addNetworkState
NetUnconfirmed == FALSE

\* /*confirmed*/ true
NetConfirmed == TRUE

\* new RewindInfo(..., confirmed = true)
addNetwork(k, t) ==
    /\ sim_pc # "fault"    \* no packet is handed in after the failure
    /\ net_pc = "idle"
    /\ CanAllocate
    /\ net_ri' = RewindInfo(NewId, t, k, NetConfirmed)
    /\ net_pc' = "n_lock"
    /\ UNCHANGED << listVars, m_network_events, m_lock, isServer, sim_pc,
                    mergeOut, walkOut, last, atLock, drained >>

addNetworkEvent == \E t \in Ticks : addNetwork("E", t)
addNetworkState == \E t \in Ticks : addNetwork("S", t)

\* a network thread that goes on without the lock
NotLockedByNet == "free"

\* the lock once m_network_events.lock() has returned in the network thread
LockedByNet == "net"

\* m_network_events.lock(): blocks until the lock is free
netLock ==
    /\ net_pc = "n_lock"
    /\ m_lock = "free"
    /\ m_lock' = LockedByNet
    /\ net_pc' = "n_push"
    /\ UNCHANGED << listVars, m_network_events, net_ri, isServer, sim_pc,
                    mergeOut, walkOut, last, atLock, drained >>

\* m_network_events.getData().push_back(ri); m_network_events.unlock()
netPushBack ==
    /\ net_pc = "n_push"
    /\ m_network_events' = Append(m_network_events, net_ri)
    /\ net_ri' = NoRec
    /\ m_lock' = "free"
    /\ net_pc' = "idle"
    /\ UNCHANGED << listVars, isServer, sim_pc,
                    mergeOut, walkOut, last, atLock, drained >>

\* ----------------------------------------------------- mergeNetworkData
\* NetworkConfig::get()->isClient(): the participant is not the server
isClient == ~isServer

\* a skip that also leaves the entries of the current tick behind
IsFutureOrNow(t, w) == t >= w

\* entries that will happen in the future are left in the list
IsFuture(t, w) == t > w

\* a server that keeps the tick of a late event
ServerTicksKept(t, w) == t

\* a merge that moves late events to 'now' in either role
AnyRoleTicks(t, w) == IF t < w THEN w ELSE t

\* the server moves an event received in the past to 'now'
ServerTicks(t, w) == IF isServer /\ t < w THEN w ELSE t

\* the client rewinds to the latest event earlier than 'now'
ClientNeedsRewind(t, w) == isClient /\ t < w

\* a client that rewinds to the event it saw last
LastRewindTicks(rt, t) == t

LatestRewindTicks(rt, t) == IF t > rt THEN t ELSE rt

\* an erase that always drops the first entry
RemoveFirst(s, j) == Tail(s)

\* erase(i)
RemoveAt(s, j) == SubSeq(s, 1, j - 1) \o SubSeq(s, j + 1, Len(s))

\* *needs_rewind = false
mergeNetworkData ==
    \E w \in WorldTicks :
    /\ sim_pc = "idle"
    /\ needs_rewind' = FALSE
    /\ world_ticks' = w
    /\ rewind_ticks' = 0      \* the caller's variable, not written yet
    /\ mi' = 1
    /\ sim_pc' = "m_lock"
    /\ last' = [op |-> "merge", arg |-> w, cur0 |-> m_current, ins |-> 0]
    /\ atLock' = NoSnap
    /\ drained' = <<>>
    /\ ForgetWalk
    /\ UNCHANGED << listVars, netVars, isServer >>

\* m_network_events.lock(): blocks until the lock is free
mergeLock ==
    /\ sim_pc = "m_lock"
    /\ m_lock = "free"
    /\ m_lock' = "sim"
    /\ sim_pc' = "m_check"
    /\ atLock' = [taken |-> TRUE, inbox |-> m_network_events,
                  log |-> m_all_rewind_info, cur |-> m_current]
    /\ UNCHANGED << listVars, m_network_events, net_pc, net_ri, isServer,
                    mergeOut, walkOut, last, drained >>

\* an early return that forgets to unlock
EmptyReturnKeepsLock == "sim"

\* the lock after the unlock() of the early return
EmptyReturnLock == "free"

mergeEmpty ==
    /\ sim_pc = "m_check"
    /\ m_network_events = <<>>
    /\ m_lock' = EmptyReturnLock
    /\ sim_pc' = "idle"
    /\ UNCHANGED << listVars, m_network_events, net_pc, net_ri, isServer,
                    mergeOut, walkOut, last, atLock, drained >>

mergeBegin ==
    /\ sim_pc = "m_check"
    /\ m_network_events # <<>>
    /\ rewind_ticks' = RewindTicksInit
    /\ mi' = 1
    /\ sim_pc' = "m_loop"
    /\ UNCHANGED << listVars, netVars, isServer, world_ticks, needs_rewind,
                    walkOut, last, atLock, drained >>

mergeSkip ==
    /\ sim_pc = "m_loop"
    /\ mi <= Len(m_network_events)
    /\ IsFuture(m_network_events[mi].tick, world_ticks)
    /\ mi' = mi + 1
    /\ UNCHANGED << listVars, netVars, isServer, sim_pc, world_ticks,
                    needs_rewind, rewind_ticks, walkOut, last, atLock,
                    drained >>

mergeInsert ==
    /\ sim_pc = "m_loop"
    /\ mi <= Len(m_network_events)
    /\ ~IsFuture(m_network_events[mi].tick, world_ticks)
    /\ LET e  == m_network_events[mi]
           ri == [e EXCEPT !.tick = ServerTicks(e.tick, world_ticks)]
       IN
       /\ insertRewindInfo(ri)
       /\ IF ClientNeedsRewind(ri.tick, world_ticks)
          THEN /\ needs_rewind' = TRUE
               /\ rewind_ticks' = LatestRewindTicks(rewind_ticks, ri.tick)
          ELSE UNCHANGED << needs_rewind, rewind_ticks >>
       /\ m_network_events' = RemoveAt(m_network_events, mi)
       /\ drained' = Append(drained, e)
       /\ last' = [op |-> "merge", arg |-> world_ticks, cur0 |-> m_current,
                   ins |-> ri.id]
    /\ UNCHANGED << m_lock, net_pc, net_ri, isServer, sim_pc, world_ticks,
                    mi, walkOut, atLock >>

mergeUnlock ==
    /\ sim_pc = "m_loop"
    /\ mi > Len(m_network_events)
    /\ m_lock' = "free"
    /\ sim_pc' = "idle"
    /\ UNCHANGED << listVars, m_network_events, net_pc, net_ri, isServer,
                    mergeOut, walkOut, last, atLock, drained >>

\* ------------------------------------------------------------ undoUntil
\* a walk that stops at unconfirmed states too
UndoStopsAtAnyState(r, u) == r.tick <= u /\ isState(r)

\* the test that ends the backward walk
UndoStops(r, u) == r.tick <= u /\ isState(r) /\ r.conf

\* the do-while loop from position c: undo() on each element, return at the
\* first one that stops the walk; found = FALSE when m_current-- is applied
\* to begin()
RECURSIVE UndoWalk(_, _, _, _)
UndoWalk(l, c, u, acc) ==
    LET acc1 == Append(acc, l[c].id) IN
    IF UndoStops(l[c], u)
    THEN [found |-> TRUE, cur |-> c, ticks |-> l[c].tick, undone |-> acc1]
    ELSE IF c = 1
    THEN [found |-> FALSE, cur |-> 0, ticks |-> UndoFailed, undone |-> acc1]
    ELSE UndoWalk(l, c - 1, u, acc1)

\* the first step: back by one unless m_current is begin()
UndoStart(c) == IF c # 1 THEN c - 1 ELSE c

\* the replay that starts at the State undoUntil returned: the position of
\* that State, the tick the next replayAllEvents of the series takes, and
\* the ids rewind() was invoked on so far
ReplayFrom(c, t) == [from |-> c, next |-> t, acc |-> <<>>]

\* the call comes right after a merge that asked for a rewind, with the
\* tick that merge reported; the outcome of that merge is kept through it
AfterRewindMerge(u) ==
    last.op = "merge" /\ needs_rewind /\ u = rewind_ticks

undoUntil ==
    \E u \in Ticks :
    /\ sim_pc = "idle"
    /\ last' = [op |-> "undoUntil", arg |-> u, cur0 |-> m_current, ins |-> 0]
    /\ world_ticks' = 0 /\ mi' = 1 /\ drained' = <<>>
    /\ IF AfterRewindMerge(u)
       THEN UNCHANGED << needs_rewind, rewind_ticks, atLock >>
       ELSE needs_rewind' = FALSE /\ rewind_ticks' = 0 /\ atLock' = NoSnap
    /\ rewound' = <<>>
    /\ IF m_all_rewind_info = <<>>
       THEN \* *m_current dereferences end() of the empty list
            /\ sim_pc' = "fault"
            /\ undone' = <<>>
            /\ ret' = 0
            /\ replayed' = NoReplay
            /\ UNCHANGED m_current
       ELSE LET r == UndoWalk(m_all_rewind_info, UndoStart(m_current), u,
                              <<>>)
            IN
            /\ undone' = r.undone
            /\ IF r.found
               THEN /\ m_current' = r.cur
                    /\ ret' = r.ticks
                    /\ sim_pc' = "idle"
                    /\ replayed' = ReplayFrom(r.cur, r.ticks)
               ELSE \* begin() was decremented: the circular list yields
                    \* end(), the loop ends and -1 is returned; a checked
                    \* iterator aborts instead
                    /\ replayed' = NoReplay
                    /\ \/ /\ m_current' = end
                          /\ ret' = UndoFailed
                          /\ sim_pc' = "idle"
                       \/ /\ sim_pc' = "fault"
                          /\ ret' = 0
                          /\ UNCHANGED m_current
    /\ UNCHANGED << m_all_rewind_info, netVars, isServer >>

\* ------------------------------------------------------ replayAllEvents
\* a replay that rewinds states as well
ReplayRewindsAll(r) == TRUE

\* a replay that leaves out the Events that are not confirmed
ReplayRewindsConfirmed(r) == isEvent(r) /\ r.conf

ReplayRewinds(r) == isEvent(r)

RECURSIVE ReplayWalk(_, _, _, _)
ReplayWalk(l, c, t, acc) ==
    IF c # Len(l) + 1 /\ l[c].tick = t
    THEN ReplayWalk(l, c + 1, t,
                    IF ReplayRewinds(l[c]) THEN Append(acc, l[c].id) ELSE acc)
    ELSE [cur |-> c, rewound |-> acc]

replayAllEvents ==
    \E t \in Ticks :
    /\ sim_pc = "idle"
    /\ LET r == ReplayWalk(m_all_rewind_info, m_current, t, <<>>) IN
       /\ m_current' = r.cur
       /\ rewound' = r.rewound
       /\ replayed' = IF replayed.from # 0 /\ t = replayed.next
                      THEN [replayed EXCEPT !.next = t + 1,
                                            !.acc = @ \o r.rewound]
                      ELSE NoReplay
    /\ last' = [op |-> "replayAllEvents", arg |-> t, cur0 |-> m_current,
                ins |-> 0]
    /\ ForgetMerge
    /\ undone' = <<>> /\ ret' = 0
    /\ UNCHANGED << m_all_rewind_info, netVars, isServer, sim_pc >>

\* ----------------------------------------------------------------- next
next ==
    /\ sim_pc = "idle"
    /\ m_current # end
    /\ m_current' = m_current + 1
    /\ last' = [op |-> "next", arg |-> 0, cur0 |-> m_current, ins |-> 0]
    /\ ForgetMerge /\ ForgetWalk
    /\ UNCHANGED << m_all_rewind_info, netVars, isServer, sim_pc >>

\* ------------------------------------------- isEmpty / hasMoreRewindInfo
isEmpty == m_current = end
hasMoreRewindInfo == m_current # end

\* ---------------------------------------------------------------- reset
reset ==
    /\ sim_pc = "idle"
    /\ sim_pc' = "r_lock"
    /\ last' = [op |-> "reset", arg |-> 0, cur0 |-> m_current, ins |-> 0]
    /\ ForgetMerge /\ ForgetWalk
    /\ UNCHANGED << listVars, netVars, isServer >>

\* m_network_events.lock(): blocks until the lock is free
resetLock ==
    /\ sim_pc = "r_lock"
    /\ m_lock = "free"
    /\ m_lock' = "sim"
    /\ sim_pc' = "r_events"
    /\ UNCHANGED << listVars, m_network_events, net_pc, net_ri, isServer,
                    mergeOut, walkOut, last, atLock, drained >>

\* a reset that keeps the lock while it goes on to the Main Log
LockKeptAfterClear == "sim"

\* the lock after the unlock() that follows the clear()
UnlockAfterClear == "free"

\* delete each entry, clear(), unlock()
resetNetworkEvents ==
    /\ sim_pc = "r_events"
    /\ m_network_events' = <<>>
    /\ m_lock' = UnlockAfterClear
    /\ sim_pc' = "r_all"
    /\ UNCHANGED << listVars, net_pc, net_ri, isServer, mergeOut, walkOut,
                    last, atLock, drained >>

\* a reset that leaves m_current where it was
CurrentKeptByReset(c, l) == c

\* m_current = m_all_rewind_info.end(), of the list l just cleared
CurrentAfterReset(c, l) == Len(l) + 1

resetAllRewindInfo ==
    /\ sim_pc = "r_all"
    /\ m_all_rewind_info' = <<>>
    /\ m_current' = CurrentAfterReset(m_current, <<>>)
    /\ sim_pc' = "idle"
    /\ UNCHANGED << netVars, isServer, mergeOut, walkOut, last, atLock,
                    drained >>

Next ==
    \/ addLocalEvent \/ addLocalState
    \/ addNetworkEvent \/ addNetworkState
    \/ netLock \/ netPushBack
    \/ mergeNetworkData \/ mergeLock \/ mergeEmpty \/ mergeBegin
    \/ mergeSkip \/ mergeInsert \/ mergeUnlock
    \/ undoUntil \/ replayAllEvents \/ next
    \/ reset \/ resetLock \/ resetNetworkEvents \/ resetAllRewindInfo

Spec == Init /\ [][Next]_vars

\* fair scheduling: a call that has begun keeps being run, and a thread that
\* waits in lock() gets the lock when it is free again and again
mergeStep == mergeEmpty \/ mergeBegin \/ mergeSkip \/ mergeInsert \/ mergeUnlock
resetStep == resetNetworkEvents \/ resetAllRewindInfo

FairSpec ==
    /\ Spec
    /\ SF_vars(netLock) /\ WF_vars(netPushBack)
    /\ SF_vars(mergeLock) /\ WF_vars(mergeStep)
    /\ SF_vars(resetLock) /\ WF_vars(resetStep)

\* =================================================================== claims
Max(S) == CHOOSE x \in S : \A y \in S : y <= x
PosOf(l, id) == CHOOSE j \in 1..Len(l) : l[j].id = id
Log == m_all_rewind_info

\* the last call of the simulation thread is a merge that has returned
MergeDone == last.op = "merge" /\ sim_pc = "idle"

\* C1: the Main Log is non-decreasing by tick and, among Records of equal
\* tick, every State precedes every Event, after every insertion (and so in
\* every state).
C1_Ordered ==
    \A i, j \in 1..Len(Log) :
        i < j => /\ Log[i].tick <= Log[j].tick
                 /\ Log[i].tick = Log[j].tick
                      => ~(isEvent(Log[i]) /\ isState(Log[j]))

\* a merge has just put a State in front of an older Event of the same tick
C1_Witness ==
    /\ last.op = "merge" /\ last.ins # 0
    /\ \E i, j \in 1..Len(Log) :
          /\ i < j /\ Log[i].id = last.ins
          /\ isState(Log[i]) /\ isEvent(Log[j])
          /\ Log[i].tick = Log[j].tick

\* C2: insertion is stable: a step that inserts a Record places it after
\* every Record of the same kind and tick that is already in the Main Log.
C2_Stable ==
    [][ Len(m_all_rewind_info') = Len(m_all_rewind_info) + 1
        => \A j, k \in 1..Len(m_all_rewind_info') :
              ( /\ m_all_rewind_info'[k].id \notin Ids(m_all_rewind_info)
                /\ m_all_rewind_info'[j].id \in Ids(m_all_rewind_info)
                /\ m_all_rewind_info'[j].kind = m_all_rewind_info'[k].kind
                /\ m_all_rewind_info'[j].tick = m_all_rewind_info'[k].tick )
              => j < k ]_vars

\* C3: when a Record is inserted while the Cursor is at end-of-log, then
\* right after the insertion hasMoreRewindInfo() holds and the Cursor
\* designates the new Record.
InsertedAtEnd == last.ins # 0 /\ last.cur0 = Len(Log)

C3_CursorRepair ==
    InsertedAtEnd => /\ m_current # end
                     /\ Log[m_current].id = last.ins

\* the Cursor was at end-of-log and the new Record went in front of others
C3_Witness ==
    /\ InsertedAtEnd
    /\ PosOf(Log, last.ins) < Len(Log)

\* C4: on a client a finished merge reports needs_rewind exactly when it
\* drained an entry with tick < world_ticks, and rewind_ticks is then the
\* maximum of those ticks.
PastTicks == { drained[j].tick : j \in { k \in 1..Len(drained) :
                                           drained[k].tick < world_ticks } }

C4_ClientRewind ==
    (isClient /\ MergeDone)
        => /\ needs_rewind = (PastTicks # {})
           /\ PastTicks # {} => rewind_ticks = Max(PastTicks)

\* two past entries drained, the later tick first
C4_Witness ==
    /\ isClient /\ MergeDone
    /\ Len(drained) = 2
    /\ drained[2].tick < drained[1].tick
    /\ drained[1].tick < world_ticks

\* C5: on a server a merge never reports needs_rewind, and every Record it
\* moved into the Main Log carries tick world_ticks there.
C5_ServerRetime ==
    (isServer /\ last.op = "merge")
        => /\ ~needs_rewind
           /\ \A j \in 1..Len(drained) :
                 \E k \in 1..Len(Log) : /\ Log[k].id = drained[j].id
                                        /\ Log[k].tick = world_ticks

\* a server merge that moved an entry that arrived late
C5_Witness ==
    /\ isServer /\ MergeDone
    /\ \E j \in 1..Len(drained) : drained[j].tick < world_ticks

\* C6: a finished merge has moved every entry that was in the Inbox when it
\* took the lock and has tick <= world_ticks into the Main Log, and has left
\* every entry with tick > world_ticks in the Inbox; when all entries were
\* future-dated the Main Log and the Cursor are unchanged, the Inbox is not
\* empty and needs_rewind is false.
C6_Partition ==
    (MergeDone /\ atLock.taken)
        => /\ \A j \in 1..Len(atLock.inbox) :
                 LET e == atLock.inbox[j] IN
                 IF e.tick <= world_ticks
                 THEN e.id \in Ids(Log) /\ e.id \notin Ids(m_network_events)
                 ELSE e.id \in Ids(m_network_events) /\ e.id \notin Ids(Log)
           /\ ( /\ atLock.inbox # <<>>
                /\ \A j \in 1..Len(atLock.inbox) :
                      atLock.inbox[j].tick > world_ticks )
              => /\ Log = atLock.log
                 /\ m_current = atLock.cur
                 /\ m_network_events # <<>>
                 /\ ~needs_rewind

\* a merge that skipped a future entry and then moved a later one
C6_Witness ==
    /\ MergeDone /\ atLock.taken
    /\ Len(atLock.inbox) = 2
    /\ atLock.inbox[1].tick > world_ticks
    /\ atLock.inbox[2].tick <= world_ticks

\* C7: addNetworkEvent and addNetworkState only append a confirmed Record to
\* the Inbox and leave the Main Log and the Cursor unchanged; a Record of the
\* Inbox enters the Main Log only in a step of mergeNetworkData(w) with
\* w >= the Record's tick.
C7_NetworkAppendOnly ==
    [][ /\ net_pc' # net_pc
           => /\ m_all_rewind_info' = m_all_rewind_info
              /\ m_current' = m_current
              /\ \/ m_network_events' = m_network_events
                 \/ /\ Len(m_network_events') = Len(m_network_events) + 1
                    /\ SubSeq(m_network_events', 1, Len(m_network_events))
                          = m_network_events
                    /\ m_network_events'[Len(m_network_events')].conf
        /\ \A j \in 1..Len(m_network_events) :
              m_network_events[j].id \in Ids(m_all_rewind_info')
                 => /\ sim_pc = "m_loop"
                    /\ m_network_events[j].tick <= world_ticks
      ]_vars

\* the network thread has appended a Record behind another one while the
\* Main Log holds none, the Cursor still at end-of-log
C7_Witness ==
    /\ net_pc = "idle"
    /\ Len(m_network_events) = 2
    /\ m_all_rewind_info = <<>>
    /\ m_current = end
    /\ last.op = "none"

\* C8: with a non-empty log undoUntil(u) starts at the Record before the
\* Cursor (at the first Record when the Cursor is on it), invokes undo() once
\* on each Record from there backward, and when it meets a confirmed State
\* with tick <= u it stops there, returns that State's tick and leaves the
\* Cursor on it.
UndoFrom == IF last.cur0 = 1 THEN 1 ELSE last.cur0 - 1
UndoTargets == { j \in 1..UndoFrom :
                    /\ isState(Log[j]) /\ Log[j].conf
                    /\ Log[j].tick <= last.arg }
UndoTo == IF UndoTargets = {} THEN 1 ELSE Max(UndoTargets)

C8_UndoUntil ==
    (last.op = "undoUntil" /\ Log # <<>>)
        => /\ undone = [ k \in 1..(UndoFrom - UndoTo + 1) |->
                           Log[UndoFrom - k + 1].id ]
           /\ UndoTargets # {}
                => /\ sim_pc = "idle"
                   /\ ret = Log[UndoTo].tick
                   /\ m_current = UndoTo

\* the walk passed a State that does not qualify and stopped at one that does
C8_Witness ==
    /\ last.op = "undoUntil" /\ Log # <<>>
    /\ UndoTargets # {}
    /\ UndoTo < UndoFrom
    /\ isState(Log[UndoFrom])
    /\ last.cur0 = end

\* C9: when undoUntil(u) reaches the start of the log without meeting a
\* confirmed State with tick <= u, it ends in an unrecoverable failure and
\* returns no value to its caller.
C9_FailsLoudly ==
    (last.op = "undoUntil" /\ Log # <<>> /\ UndoTargets = {})
        => sim_pc = "fault"

\* C10 as claimed: replayAllEvents(t) invokes rewind() only on Events with
\* tick t, and on return the Cursor is past all Records with tick t.
RewoundOnlyEventsAt(t) ==
    \A k \in 1..Len(rewound) :
        \E j \in 1..Len(Log) : /\ Log[j].id = rewound[k]
                               /\ isEvent(Log[j])
                               /\ Log[j].tick = t
PastAllAt(t) == \A j \in m_current..Len(Log) : Log[j].tick # t

C10_Original ==
    last.op = "replayAllEvents"
        => RewoundOnlyEventsAt(last.arg) /\ PastAllAt(last.arg)

\* C10 as amended: replayAllEvents(t) invokes rewind() only on Events with
\* tick t, never on States; on return the Cursor is at end-of-log or on a
\* Record whose tick is not t; and when the call began with the Cursor at
\* end-of-log or on a Record with tick >= t, the Cursor is past all Records
\* with tick t.
C10_Amended ==
    last.op = "replayAllEvents"
        => /\ RewoundOnlyEventsAt(last.arg)
           /\ m_current = end \/ Log[m_current].tick # last.arg
           /\ (last.cur0 = end \/ Log[last.cur0].tick >= last.arg)
                 => PastAllAt(last.arg)

\* a replay that skipped a State of the tick and rewound an Event of it
C10_Witness ==
    /\ last.op = "replayAllEvents"
    /\ last.cur0 # end
    /\ Log[last.cur0].tick = last.arg
    /\ isState(Log[last.cur0])
    /\ Len(rewound) = 1
    /\ m_current = last.cur0 + 2

\* C11: after reset() has completed, whatever the queue held before,
\* isEmpty() is true, hasMoreRewindInfo() is false and the Main Log holds no
\* Records.
ResetDone == last.op = "reset" /\ sim_pc = "idle"

C11_ResetClears ==
    ResetDone => isEmpty /\ ~hasMoreRewindInfo /\ Log = <<>>

\* a reset of a queue whose Cursor had moved off the first position
C11_Witness == ResetDone /\ last.cur0 > 1

\* C12 as claimed: no step changes the tick or the confirmed flag of a
\* Record that exists before and after it.
LiveRecs ==
    { m_all_rewind_info[j] : j \in 1..Len(m_all_rewind_info) }
      \cup { m_network_events[j] : j \in 1..Len(m_network_events) }
      \cup (IF net_ri.id = 0 THEN {} ELSE {net_ri})

C12_Original ==
    [][ \A r \in LiveRecs : \A q \in LiveRecs' :
           q.id = r.id => q.tick = r.tick /\ q.conf = r.conf ]_vars

\* C12 as amended: the confirmed flag of a Record never changes, and its tick
\* changes only when mergeNetworkData(w) on a server moves an Inbox entry
\* with tick < w into the Main Log, where it gets tick w.
C12_Amended ==
    [][ \A r \in LiveRecs : \A q \in LiveRecs' :
           q.id = r.id
             => /\ q.conf = r.conf
                /\ q.kind = r.kind
                /\ q.tick # r.tick
                     => /\ isServer
                        /\ sim_pc = "m_loop"
                        /\ r.id \in Ids(m_network_events)
                        /\ q.id \in Ids(m_all_rewind_info')
                        /\ r.tick < world_ticks
                        /\ q.tick = world_ticks ]_vars

\* a server merge has just inserted a Record under a tick it did not arrive
\* with
C12_Witness ==
    /\ isServer /\ last.op = "merge" /\ last.ins # 0
    /\ drained # <<>>
    /\ drained[Len(drained)].id = last.ins
    /\ drained[Len(drained)].tick # Log[PosOf(Log, last.ins)].tick

\* C13: on a client, when mergeNetworkData(w) reports needs_rewind with
\* rewind_ticks r, the undoUntil(r) that follows at once returns the tick of
\* the last confirmed State of the Main Log with tick <= r and invokes undo()
\* on every Record that lay before the Cursor before the merge and lies after
\* that State.
RewindTargets == { j \in 1..Len(Log) :
                      /\ isState(Log[j]) /\ Log[j].conf
                      /\ Log[j].tick <= rewind_ticks }
ConsumedBeforeMerge == { atLock.log[q].id : q \in 1..(atLock.cur - 1) }

C13_RewindAfterMerge ==
    (isClient /\ last.op = "undoUntil" /\ needs_rewind /\ RewindTargets # {})
        => /\ sim_pc = "idle"
           /\ ret = Log[Max(RewindTargets)].tick
           /\ \A id \in ConsumedBeforeMerge :
                 PosOf(Log, id) > Max(RewindTargets)
                    => \E k \in 1..Len(undone) : undone[k] = id

\* C15: after undoUntil has returned c, replayAllEvents(c), ...,
\* replayAllEvents(w) in that order with no insertion in between invoke
\* rewind() exactly once on every Event that lies after the returned State
\* and has tick <= w, in Main Log order, and leave the Cursor at end-of-log
\* or on a Record with tick > w.
ReplayedTo == replayed.next - 1
EventsToReplay ==
    SelectSeq(SubSeq(Log, replayed.from + 1, Len(Log)),
              LAMBDA r : isEvent(r) /\ r.tick <= ReplayedTo)

C14_MergedAhead ==
    (isServer /\ MergeDone)
        => \A j \in 1..Len(drained) :
              PosOf(Log, drained[j].id) >= m_current

\* C16: the Records of the Inbox and of the Main Log are held exactly once,
\* never in both; no step drops a Record from both except reset(), and no
\* step but reset() removes a Record from the Main Log.
HeldOnce ==
    /\ Cardinality(Ids(m_all_rewind_info)) = Len(m_all_rewind_info)
    /\ Cardinality(Ids(m_network_events)) = Len(m_network_events)
    /\ Ids(m_all_rewind_info) \cap Ids(m_network_events) = {}

C16_HeldOnce ==
    [][ /\ HeldOnce'
        /\ sim_pc \notin {"r_events", "r_all"}
             => /\ Ids(m_all_rewind_info) \cup Ids(m_network_events)
                     \subseteq Ids(m_all_rewind_info')
                                 \cup Ids(m_network_events')
                /\ Ids(m_all_rewind_info) \subseteq Ids(m_all_rewind_info')
      ]_vars

\* a merge in progress has moved one entry and left another in the Inbox
C16_Witness ==
    /\ sim_pc = "m_loop"
    /\ drained # <<>>
    /\ m_network_events # <<>>
    /\ drained[1].id \in Ids(Log)

\* C20: an insertion made while the Cursor is not at end-of-log leaves the
\* Cursor on the Record it designated before.
InsertedNotAtEnd == last.ins # 0 /\ last.cur0 < Len(Log)
LogBeforeInsert == SelectSeq(Log, LAMBDA r : r.id # last.ins)

C20_CursorKept ==
    InsertedNotAtEnd
        => /\ m_current # end
           /\ Log[m_current].id = LogBeforeInsert[last.cur0].id

\* the new Record went in front of the Record the Cursor is on
C20_Witness ==
    /\ InsertedNotAtEnd
    /\ PosOf(Log, last.ins) < m_current

\* C17: every read or modification of the Inbox in addNetworkEvent,
\* addNetworkState, mergeNetworkData and reset is made by an actor that
\* holds the Inbox lock, and the two actors are never at the Inbox together.
NetAtInbox == net_pc = "n_push"
SimAtInbox == sim_pc \in {"m_check", "m_loop", "r_events"}

C17_LockedAccess ==
    /\ [](/\ NetAtInbox => m_lock = "net"
          /\ SimAtInbox => m_lock = "sim"
          /\ ~(NetAtInbox /\ SimAtInbox))
    /\ [][ m_network_events' # m_network_events
             => \/ NetAtInbox /\ m_lock = "net" /\ sim_pc' = sim_pc
                \/ SimAtInbox /\ m_lock = "sim" /\ net_pc' = net_pc ]_vars

\* the network thread is about to append while a merge waits for the lock
C17_Witness ==
    /\ NetAtInbox
    /\ sim_pc = "m_lock"
    /\ m_network_events # <<>>

\* C18: every operation that takes the Inbox lock releases it on every
\* path, the empty-Inbox return of mergeNetworkData included, so the lock is
\* free whenever no operation is in progress, and under fair scheduling each
\* addNetworkEvent, addNetworkState, mergeNetworkData and reset call
\* completes.
NetCalling == net_pc # "idle"
SimCalling == sim_pc \in {"m_lock", "m_check", "m_loop",
                          "r_lock", "r_events", "r_all"}

C18_LockReleased ==
    /\ []((~NetCalling /\ ~SimCalling) => m_lock = "free")
    /\ NetCalling ~> ~NetCalling
    /\ SimCalling ~> ~SimCalling

\* a merge holds the lock on its way to the empty-Inbox return while the
\* network thread waits in lock()
C18_Witness ==
    /\ sim_pc = "m_check"
    /\ m_network_events = <<>>
    /\ net_pc = "n_lock"
    /\ m_lock = "sim"

\* C19 as claimed: the Inbox lock is held only while entries are appended to
\* or removed from the Inbox: the actor that inserts a Record into the Main
\* Log, constructs a Record or destroys a Record does not hold it.
InsertsIntoLog == Len(m_all_rewind_info') > Len(m_all_rewind_info)
NetConstructs == net_ri = NoRec /\ net_ri' # NoRec
DestroysLog == Len(m_all_rewind_info') < Len(m_all_rewind_info)
DestroysInbox ==
    Ids(m_network_events) \ (Ids(m_network_events')
                                \cup Ids(m_all_rewind_info')) # {}

C19_Original ==
    [][ /\ InsertsIntoLog => m_lock # "sim"
        /\ NetConstructs => m_lock # "net"
        /\ (DestroysLog \/ DestroysInbox) => m_lock # "sim" ]_vars

\* C19 as amended: the network thread constructs its Record before it takes
\* the lock; addLocalEvent and addLocalState construct and insert without
\* the lock; mergeNetworkData holds the lock over its whole drain loop, so
\* each Record it moves is inserted into the Main Log with the lock held;
\* reset holds the lock while it destroys the Inbox entries and has released
\* it when it destroys the Records of the Main Log.
C19_Amended ==
    [][ /\ InsertsIntoLog => (m_lock = "sim" <=> sim_pc = "m_loop")
        /\ NetConstructs => m_lock # "net"
        /\ DestroysLog => m_lock # "sim"
        /\ DestroysInbox => m_lock = "sim" /\ sim_pc = "r_events" ]_vars

\* a merge has inserted a Record into the Main Log and still holds the lock
C19_Witness ==
    /\ sim_pc = "m_loop"
    /\ last.ins # 0
    /\ m_lock = "sim"
    /\ net_pc = "n_lock"
====
